---- MODULE Spec2Model ----
(***************************************************************************)
(* Model of fileconverter.py: the upload -> load_file -> convert_file ->   *)
(* get_download_data pipeline of main(), with the loaders, the converter   *)
(* and the serializer translated branch by branch.                         *)
(*                                                                         *)
(* Python values are modelled as follows.                                  *)
(*   cell values     tagged tuples: <<"num", n>>, <<"text", s>>,           *)
(*                   <<"none">>, <<"geom", type, x, y>> (a geometry        *)
(*                   object), <<"wkt", type, x, y>> (the str() of a        *)
(*                   geometry), <<"list", items>> (a Python list cell)     *)
(*   DataFrame       [kind, columns, rows]; kind is "DataFrame" or         *)
(*                   "GeoDataFrame"; rows are functions column -> value    *)
(*   None (data)     [kind |-> "None"]                                     *)
(*   Optional[str]   <<>> for None, <<s>> for the string s                 *)
(*   file bytes      tagged tuples naming what the bytes hold:             *)
(*                   <<"csv", table>>, <<"zip", entries>>, <<"garbage">>,..*)
(*   a call          [exc, val]: exc = <<>> when the call returned val,    *)
(*                   <<msg>> when it raised an exception with text msg     *)
(***************************************************************************)
EXTENDS Integers, Sequences, FiniteSets, TLC

VARIABLES pc, request, data, error, converted_data, download, ran, tmpDirs

vars == <<pc, request, data, error, converted_data, download, ran, tmpDirs>>

(* ------------------------------ bounds --------------------------------- *)

\* Largest number of records in an input table.
MaxRecords == 2

\* Largest number of members in an uploaded KMZ container.
MaxEntries == 2

\* The size limit the size-limit claim speaks of; sizes range up to one over.
MaxUploadSize == 1

(* --------------------------- Python helpers ---------------------------- *)

\* Python: sub in s
Contains(s, sub) ==
    \E i \in 1..(Len(s) - Len(sub) + 1) : SubSeq(s, i, i + Len(sub) - 1) = sub

\* Python: s.endswith(suf)
EndsWith(s, suf) ==
    Len(s) >= Len(suf) /\ SubSeq(s, Len(s) - Len(suf) + 1, Len(s)) = suf

NoneData == [kind |-> "None"]
NoneStr == <<>>

Ok(v) == [exc |-> <<>>, val |-> v]
Raise(msg) == [exc |-> <<msg>>, val |-> NoneData]

Num(n) == <<"num", n>>
Text(s) == <<"text", s>>
NoneVal == <<"none">>
Point(x, y) == <<"geom", "Point", x, y>>

\* Python: str(x) of a cell value
Str(v) ==
    CASE v[1] = "num" -> Text(ToString(v[2]))
      [] v[1] = "geom" -> <<"wkt", v[2], v[3], v[4]>>
      [] v[1] = "none" -> Text("None")
      [] OTHER -> v

DataFrame(columns, rows) == [kind |-> "DataFrame", columns |-> columns, rows |-> rows]
GeoDataFrame(columns, rows) == [kind |-> "GeoDataFrame", columns |-> columns, rows |-> rows]

Range(s) == {s[i] : i \in DOMAIN s}

(* ------------------------- format categories --------------------------- *)

GEOSPATIAL_FORMATS == <<"Shapefile", "KML/KMZ", "GeoJSON", "GPKG", "CSV (with coordinates)">>
GENERAL_FORMATS == <<"JSON", "Excel", "XML", "YAML", "CSV (general)">>

(* ------------------------- input universe ------------------------------ *)

\* Row i of the example tables (points.csv: name, latitude, longitude).
CoordRow(i) ==
    [c \in {"name", "latitude", "longitude"} |->
        CASE c = "name" -> Text("p" \o ToString(i))
          [] c = "latitude" -> Num(i)
          [] OTHER -> Num(i + 10)]

\* A plain row with no coordinate and no geometry column.
PlainRow(i) ==
    [c \in {"name", "value"} |->
        IF c = "name" THEN Text("p" \o ToString(i)) ELSE Num(i)]

\* A plain row whose geometry column holds text (a CSV exported earlier).
WktRow(i) ==
    [c \in {"name", "geometry"} |->
        IF c = "name" THEN Text("p" \o ToString(i)) ELSE <<"wkt", "Point", i, i + 10>>]

\* A row of a geospatial table.
GeoRow(i) ==
    [c \in {"name", "geometry"} |->
        IF c = "name" THEN Text("p" \o ToString(i)) ELSE Point(i, i + 10)]

Sizes == 0..MaxRecords

CoordTable(n) == DataFrame(<<"name", "latitude", "longitude">>, [i \in 1..n |-> CoordRow(i)])
PlainTable(n) == DataFrame(<<"name", "value">>, [i \in 1..n |-> PlainRow(i)])
WktTable(n) == DataFrame(<<"name", "geometry">>, [i \in 1..n |-> WktRow(i)])
GeoTable(n) == GeoDataFrame(<<"name", "geometry">>, [i \in 1..n |-> GeoRow(i)])

\* A JSON FeatureCollection of n point features (geometry, properties).
Features(n) == [props |-> <<"name">>, rows |-> [i \in 1..n |-> GeoRow(i)]]

Garbage == <<"garbage">>

UploadedFile(name, content, size) == [name |-> name, content |-> content, size |-> size]

\* Members a KMZ container may hold: (name, bytes).
KmzMembers ==
    { <<"doc.kml", <<"kml", GeoTable(1)>>>>,
      <<"doc.kml", <<"kml", GeoTable(2)>>>>,
      <<"layer.kml", <<"kml", GeoTable(0)>>>>,
      <<"DOC.KML", <<"kml", GeoTable(2)>>>>,
      <<"icon.png", Garbage>> }

\* Containers: every sequence of at most MaxEntries members.
Archives == UNION { [1..n -> KmzMembers] : n \in 0..MaxEntries }

(* ---------------------------- archive codec ---------------------------- *)

NoneBytes == <<"None">>

\* zipfile.ZipFile(f): the entry list, or BadZipFile for bytes that are no
\* container.
ZipFile(content) ==
    IF content[1] = "zip" THEN Ok(content[2]) ELSE Raise("File is not a zip file")

\* ZipFile.namelist(): the member names in entry order.
namelist(entries) == [i \in DOMAIN entries |-> entries[i][1]]

\* ZipFile.read(name): the lookup is by name, and a name stored more than
\* once resolves to the entry stored last.
ZipRead(entries, name) ==
    LET same == {i \in DOMAIN entries : entries[i][1] = name}
        last == CHOOSE i \in same : \A j \in same : j <= i
    IN entries[last][2]

\* extract_kmz: the first name ending in .kml is read; None when there is none.
extract_kmz(kmz_file) ==
    LET kmz == ZipFile(kmz_file.content)
    IN IF kmz.exc /= <<>> THEN kmz
       ELSE LET names == namelist(kmz.val)
                hits == {i \in DOMAIN names : EndsWith(names[i], ".kml")}
            IN IF hits = {} THEN Ok(NoneBytes)
               ELSE LET first == CHOOSE i \in hits : \A j \in hits : i <= j
                    IN Ok(ZipRead(kmz.val, names[first]))

(* ------------------------------ parsers -------------------------------- *)

\* A parser of the libraries: it returns the table the bytes hold, or raises
\* when the bytes are not of its format.
ReadAs(tag, content, msg) ==
    IF content[1] = tag THEN Ok(content[2]) ELSE Raise(msg)

read_csv(content) == ReadAs("csv", content, "Error tokenizing data")
read_excel(content) == ReadAs("xlsx", content, "Excel file format cannot be determined")
read_kml(content) == ReadAs("kml", content, "Failed to read KML")
read_gpkg(content) == ReadAs("gpkg", content, "Failed to read GPKG")

\* shapely.geometry.shape(g): a geometry mapping becomes a geometry; None is
\* passed through by from_features; anything else is no geometry mapping.
IsGeometryLike(v) == v[1] \in {"geom", "none"}

\* gpd.GeoDataFrame.from_features(features): the geometry column first, then
\* the properties.
from_features(features) ==
    IF \E i \in DOMAIN features.rows : ~IsGeometryLike(features.rows[i]["geometry"])
    THEN Raise("'str' object has no attribute 'get'")
    ELSE Ok(GeoDataFrame(<<"geometry">> \o features.props, features.rows))

(* ------------------------- dictionaries and XML ------------------------ *)
(* A Python dict is <<"dict", pairs>> with pairs a sequence of <<key,      *)
(* value>>; a list is <<"list", items>>.  An XML element is <<tag, body>>  *)
(* with body <<"empty">>, a text value, or <<"elems", children>>.          *)

Dict(pairs) == <<"dict", pairs>>
List(items) == <<"list", items>>

RECURSIVE Flat(_)
\* The concatenation of a sequence of sequences.
Flat(ss) == IF ss = <<>> THEN <<>> ELSE Head(ss) \o Flat(Tail(ss))

\* DataFrame.to_dict(orient='records'): one dict per row, keys in column order.
to_dict_records(df) ==
    [i \in DOMAIN df.rows |->
        Dict([k \in DOMAIN df.columns |-> <<df.columns[k], df.rows[i][df.columns[k]]>>])]

RECURSIVE Emit(_, _)
\* xmltodict.unparse, one key of a dict: a list emits one element per item, a
\* dict an element with children, None an empty element, a scalar its str().
Emit(key, value) ==
    CASE value[1] = "list" ->
            Flat([i \in DOMAIN value[2] |-> Emit(key, value[2][i])])
      [] value[1] = "dict" ->
            LET children == Flat([i \in DOMAIN value[2] |->
                                    Emit(value[2][i][1], value[2][i][2])])
            IN << <<key, IF children = <<>> THEN <<"empty">> ELSE <<"elems", children>>>> >>
      [] value[1] = "none" -> << <<key, <<"empty">>>> >>
      [] OTHER -> << <<key, Str(value)>> >>

\* xmltodict.unparse({'root': {'record': xml_data}}): the document element.
unparse_root_record(xml_data) == Emit("root", Dict(<< <<"record", List(xml_data)>> >>))[1]

\* The tags of a child list in order of first appearance.
FirstTags(children) ==
    LET firsts == {i \in DOMAIN children :
                     \A j \in 1..(i - 1) : children[j][1] /= children[i][1]}
        Nth[k \in 1..Cardinality(firsts)] ==
            CHOOSE i \in firsts : Cardinality({j \in firsts : j <= i}) = k
    IN [k \in 1..Cardinality(firsts) |-> children[Nth[k]][1]]

\* The children carrying one tag, in document order.
WithTag(children, tag) == SelectSeq(children, LAMBDA c : c[1] = tag)

RECURSIVE ParseBody(_)
\* xmltodict.parse, the value of one element: None for an empty element, the
\* text for a text element, else a dict in which a tag that occurs once maps
\* to its value and a repeated tag maps to the list of its values.
ParseBody(body) ==
    CASE body[1] = "empty" -> NoneVal
      [] body[1] = "elems" ->
            LET tags == FirstTags(body[2])
            IN Dict([k \in DOMAIN tags |->
                        LET same == WithTag(body[2], tags[k])
                        IN <<tags[k],
                             IF Len(same) = 1 THEN ParseBody(same[1][2])
                             ELSE List([i \in DOMAIN same |-> ParseBody(same[i][2])])>>])
      [] OTHER -> body

\* xmltodict.parse(xml_data): a dict with the document element as its one key.
xmltodict_parse(content) ==
    IF content[1] = "xml"
    THEN Ok(Dict(<< <<content[2][1], ParseBody(content[2][2])>> >>))
    ELSE Raise("syntax error: line 1, column 0")

RECURSIVE nested_to_record(_, _)
\* pandas nested_to_record: nested dicts are flattened to dotted names; a
\* list is left as the value of its column.
nested_to_record(prefix, pairs) ==
    Flat([i \in DOMAIN pairs |->
            IF pairs[i][2][1] = "dict"
            THEN nested_to_record(prefix \o pairs[i][1] \o ".", pairs[i][2][2])
            ELSE << <<prefix \o pairs[i][1], pairs[i][2]>> >>])

\* The row (column -> value) of a flattened dict.
RowOf(flat) ==
    [c \in {flat[i][1] : i \in DOMAIN flat} |->
        LET i == CHOOSE j \in DOMAIN flat : flat[j][1] = c IN flat[i][2]]

\* pd.json_normalize(value): a dict gives one row; a list of dicts one row
\* per item; anything else is not supported.
json_normalize(value) ==
    CASE value[1] = "dict" ->
            LET flat == nested_to_record("", value[2])
            IN Ok(DataFrame([i \in DOMAIN flat |-> flat[i][1]], <<RowOf(flat)>>))
      [] value[1] = "list" /\ \A i \in DOMAIN value[2] : value[2][i][1] = "dict" ->
            LET flats == [i \in DOMAIN value[2] |-> nested_to_record("", value[2][i][2])]
            IN Ok(DataFrame(IF flats = <<>> THEN <<>>
                            ELSE [i \in DOMAIN flats[1] |-> flats[1][i][1]],
                            [i \in DOMAIN flats |-> RowOf(flats[i])]))
      [] OTHER -> Raise("NotImplementedError")

\* The numbers a cell may hold.
NumRange == 0..(MaxRecords + 11)

\* The type inference of a text parser: a decimal numeral becomes a number.
Infer(v) ==
    IF v[1] = "text" /\ \E n \in NumRange : ToString(n) = v[2]
    THEN Num(CHOOSE n \in NumRange : ToString(n) = v[2])
    ELSE v

\* pd.read_xml(text): one row per child of the document element, one column
\* per grandchild, values type-inferred; a document without such nodes fails.
read_xml(doc) ==
    IF doc[2][1] /= "elems" \/ \E i \in DOMAIN doc[2][2] : doc[2][2][i][2][1] /= "elems"
    THEN Raise("xpath does not return any nodes or attributes")
    ELSE LET recs == doc[2][2]
             cols == [k \in DOMAIN recs[1][2][2] |-> recs[1][2][2][k][1]]
         IN Ok(DataFrame(cols,
                 [i \in DOMAIN recs |->
                    [c \in Range(cols) |->
                        LET kids == recs[i][2][2]
                            k == CHOOSE j \in DOMAIN kids : kids[j][1] = c
                        IN IF kids[k][2][1] = "empty" THEN NoneVal ELSE Infer(kids[k][2])]]))

(* ------------------------- temporary workspace ------------------------- *)

\* tempfile.mkdtemp: a directory name not in use.
mkdtemp(dirs) == "tmp" \o ToString(Cardinality(dirs))

\* A workspace made with mkdtemp and removed by hand after the body, which an
\* exception in the body skips.
TemporaryDirectory_leaky(dirs, tmp_dir, outcome) ==
    IF outcome.exc /= <<>> THEN dirs ELSE dirs \ {tmp_dir}

\* TemporaryDirectory.__exit__: the with statement removes the directory
\* whether its body returned or raised.
TemporaryDirectory_exit(dirs, tmp_dir, outcome) == dirs \ {tmp_dir}

\* The files of a directory after writing `files` in order: a later file of
\* the same name replaces an earlier one.
Written(files) ==
    {i \in DOMAIN files : \A j \in DOMAIN files : files[j].name = files[i].name => j <= i}

\* gpd.read_file(path to .shp): the geometry member must decode and its .shx
\* index must lie beside it.
read_shapefile(files, shp) ==
    IF files[shp].content[1] = "shp"
       /\ \E i \in Written(files) : EndsWith(files[i].name, ".shx")
    THEN Ok(files[shp].content[2])
    ELSE Raise("Failed to open shapefile")

\* handle_shapefile_upload, the body of its with statement.
shapefile_upload_body(uploaded_files, disk) ==
    IF disk = "full" THEN Raise("No space left on device")
    ELSE LET shp_files == {i \in Written(uploaded_files) :
                              EndsWith(uploaded_files[i].name, ".shp")}
         IN IF shp_files = {}
            THEN Ok([data |-> NoneData, error |-> <<"No .shp file found in uploaded files">>])
            ELSE LET gdf == read_shapefile(uploaded_files, CHOOSE i \in shp_files : TRUE)
                 IN IF gdf.exc = <<>>
                    THEN Ok([data |-> gdf.val, error |-> NoneStr])
                    ELSE Ok([data |-> NoneData,
                             error |-> <<"Error reading shapefile: " \o gdf.exc[1]>>])

\* handle_shapefile_upload: [exc, val, dirs], dirs the directories left behind.
handle_shapefile_upload(uploaded_files, disk, dirs) ==
    LET tmp_dir == mkdtemp(dirs)
        r == shapefile_upload_body(uploaded_files, disk)
    IN [exc |-> r.exc, val |-> r.val,
        dirs |-> TemporaryDirectory_exit(dirs \cup {tmp_dir}, tmp_dir, r)]

(* ------------------------------- loader -------------------------------- *)

\* `return <call>, None`: the call's value with no error, or its exception.
Returning(call) ==
    [exc |-> call.exc, val |-> [data |-> call.val, error |-> NoneStr]]

\* load_file, the body of its try block: [exc, val, dirs] with val the
\* returned (data, error) pair.
load_file_try(uploaded_file, input_format, additional_files, disk, dirs) ==
    LET content == uploaded_file.content
        keep(r) == [exc |-> r.exc, val |-> r.val, dirs |-> dirs]
    IN CASE Contains(input_format, "CSV") -> keep(Returning(read_csv(content)))
         [] input_format \in {"JSON", "GeoJSON"} ->
               IF content[1] /= "json" THEN keep(Raise("Expecting value: line 1 column 1"))
               ELSE IF content[2] = "FeatureCollection"
                    THEN keep(Returning(from_features(content[3])))
                    ELSE keep(Returning(Ok(content[3])))
         [] input_format = "Excel" -> keep(Returning(read_excel(content)))
         [] input_format = "XML" ->
               LET dict_data == xmltodict_parse(content)
               IN IF dict_data.exc /= <<>> THEN keep(dict_data)
                  ELSE keep(Returning(json_normalize(dict_data.val)))
         [] input_format = "YAML" ->
               IF content[1] /= "yaml" THEN keep(Raise("could not determine a constructor"))
               ELSE keep(Returning(json_normalize(content[2])))
         [] input_format = "KML/KMZ" ->
               IF EndsWith(uploaded_file.name, ".kmz")
               THEN LET kml_file == extract_kmz(uploaded_file)
                    IN IF kml_file.exc /= <<>> THEN keep(kml_file)
                       ELSE IF kml_file.val /= NoneBytes
                            THEN keep(Returning(read_kml(kml_file.val)))
                            ELSE keep(Ok([data |-> NoneData,
                                          error |-> <<"No KML file found in KMZ archive">>]))
               ELSE keep(Returning(read_kml(content)))
         [] input_format = "Shapefile" ->
               IF additional_files = <<>>
               THEN keep(Ok([data |-> NoneData,
                             error |-> <<"Shapefile requires additional supporting files (.dbf, .shx, etc.)">>]))
               ELSE handle_shapefile_upload(<<uploaded_file>> \o additional_files, disk, dirs)
         [] input_format = "GPKG" -> keep(Returning(read_gpkg(content)))
         [] OTHER -> keep(Ok([data |-> NoneData,
                              error |-> <<"Unsupported input format: " \o input_format>>]))

\* load_file: [data, error, dirs]; any exception becomes a load error string.
load_file(uploaded_file, input_format, additional_files, disk, dirs) ==
    LET r == load_file_try(uploaded_file, input_format, additional_files, disk, dirs)
    IN IF r.exc = <<>>
       THEN [data |-> r.val.data, error |-> r.val.error, dirs |-> r.dirs]
       ELSE [data |-> NoneData, error |-> <<"Error loading file: " \o r.exc[1]>>,
             dirs |-> r.dirs]

(* ------------------------------ converter ------------------------------ *)

\* csv_data['geometry'] = csv_data['geometry'].apply(lambda x: str(x))
geometry_to_str(df) ==
    [df EXCEPT !.rows = [i \in DOMAIN df.rows |->
                            [df.rows[i] EXCEPT !["geometry"] = Str(df.rows[i]["geometry"])]]]

\* The same branch without the copy: the caller's object is rewritten too.
geo_to_csv_inplace(df) == [result |-> geometry_to_str(df), input |-> geometry_to_str(df)]

\* The GeoDataFrame-to-CSV branch: the work is done on data.copy(), so the
\* caller's object (input) is as it was.
geo_to_csv(df) == [result |-> geometry_to_str(df), input |-> df]

\* data.<attribute> on an object that may be None: the call r, or the
\* AttributeError Python raises for None.
Attr(df, r) ==
    IF df.kind = "None" THEN Raise("'NoneType' object has no attribute") ELSE r

\* The features convert_file builds from a plain table with a geometry column.
FeaturesOf(df) ==
    [props |-> SelectSeq(df.columns, LAMBDA col : col /= "geometry"), rows |-> df.rows]

\* pd.DataFrame(list of dicts): the columns are the keys of the dicts.
DataFrame_from_records(df) ==
    DataFrame(IF df.rows = <<>> THEN <<>> ELSE df.columns, df.rows)

Pair(d, e, input) == [ret |-> "tuple", data |-> d, error |-> e, input |-> input]

\* A function body that ends without a return statement returns None.
ReturnsNone(input) == [ret |-> "None", input |-> input]

\* convert_file, the body of its try block.
convert_file_try(df, output_format) ==
    IF df.kind = "GeoDataFrame"
    THEN IF Contains(output_format, "CSV")
         THEN IF "geometry" \in Range(df.columns)
              THEN LET c == geo_to_csv(df) IN Ok(Pair(c.result, NoneStr, c.input))
              ELSE Raise("'geometry'")
         ELSE IF output_format \in {"GeoJSON", "KML/KMZ", "Shapefile", "GPKG"}
              THEN Ok(Pair(df, NoneStr, df))
              ELSE Ok(ReturnsNone(df))
    ELSE CASE Contains(output_format, "CSV") -> Ok(Pair(df, NoneStr, df))
           [] output_format = "JSON" -> Ok(Pair(df, NoneStr, df))
           [] output_format = "GeoJSON" ->
                 Attr(df,
                   IF "geometry" \in Range(df.columns)
                   THEN LET gdf == from_features(FeaturesOf(df))
                        IN IF gdf.exc = <<>> THEN Ok(Pair(gdf.val, NoneStr, df)) ELSE gdf
                   ELSE Ok(Pair(NoneData,
                                <<"Missing geometry column for GeoJSON conversion">>, df)))
           [] output_format = "Excel" -> Ok(Pair(df, NoneStr, df))
           [] output_format = "XML" ->
                 Attr(df,
                   LET x == read_xml(unparse_root_record(to_dict_records(df)))
                   IN IF x.exc = <<>> THEN Ok(Pair(x.val, NoneStr, df)) ELSE x)
           [] output_format = "YAML" ->
                 Attr(df, Ok(Pair(DataFrame_from_records(df), NoneStr, df)))
           [] output_format \in {"KML/KMZ", "Shapefile", "GPKG"} ->
                 Ok(Pair(NoneData, <<"Data must be spatial (GeoDataFrame) for this format">>, df))
           [] OTHER ->
                 Ok(Pair(NoneData, <<"Unsupported output format: " \o output_format>>, df))

\* convert_file: the (data, error) pair, or None; any exception becomes a
\* conversion error string.
convert_file(df, output_format) ==
    LET r == convert_file_try(df, output_format)
    IN IF r.exc = <<>> THEN r.val
       ELSE Pair(NoneData, <<"Error converting file: " \o r.exc[1]>>, df)

(* ------------------------------ serializer ----------------------------- *)

get_file_extension(format_name) ==
    CASE format_name = "CSV (general)" -> "csv"
      [] format_name = "CSV (with coordinates)" -> "csv"
      [] format_name = "JSON" -> "json"
      [] format_name = "GeoJSON" -> "geojson"
      [] format_name = "Excel" -> "xlsx"
      [] format_name = "XML" -> "xml"
      [] format_name = "YAML" -> "yml"
      [] format_name = "KML/KMZ" -> "kml"
      [] format_name = "Shapefile" -> "zip"
      [] format_name = "GPKG" -> "gpkg"
      [] OTHER -> ""

\* The table a text or spreadsheet encoder writes: a geometry is written as
\* its text.
AsWritten(df) ==
    DataFrame(df.columns,
              [i \in DOMAIN df.rows |->
                  [c \in DOMAIN df.rows[i] |->
                      IF df.rows[i][c][1] = "geom" THEN Str(df.rows[i][c]) ELSE df.rows[i][c]]])

\* GeoDataFrame.to_file(target, driver): only a GeoDataFrame has the method.
to_file(df, tag) ==
    IF df.kind = "GeoDataFrame" THEN Ok(<<tag, df>>)
    ELSE Raise("'DataFrame' object has no attribute 'to_file'")

\* get_download_data, Shapefile branch, the body of its with statement: the
\* members written to the directory are zipped under the name output.
shapefile_download_body(df, disk) ==
    IF disk = "full" THEN Raise("No space left on device")
    ELSE LET shp == to_file(df, "shp")
         IN IF shp.exc /= <<>> THEN shp
            ELSE Ok([bytes |-> <<"zip", << <<"output.shp", shp.val>>,
                                          <<"output.shx", <<"shx">>>>,
                                          <<"output.dbf", <<"dbf">>>> >>>>,
                     mime |-> "application/zip"])

\* get_download_data: [exc, val, dirs] with val the (bytes, mime type) pair.
get_download_data(df, output_format, disk, dirs) ==
    LET keep(r) == [exc |-> r.exc, val |-> r.val, dirs |-> dirs]
        with(r, mime) == IF r.exc /= <<>> THEN keep(r)
                         ELSE keep(Ok([bytes |-> r.val, mime |-> mime]))
    IN CASE output_format = "Excel" ->
               with(Attr(df, Ok(<<"xlsx", AsWritten(df)>>)),
                    "application/vnd.openxmlformats-officedocument.spreadsheetml.sheet")
         [] Contains(output_format, "CSV") ->
               with(Attr(df, Ok(<<"csv", AsWritten(df)>>)), "text/csv")
         [] output_format = "JSON" ->
               with(Attr(df, Ok(<<"json", "records", AsWritten(df)>>)), "application/json")
         [] output_format = "GeoJSON" ->
               with(Attr(df, IF df.kind = "GeoDataFrame"
                             THEN Ok(<<"json", "FeatureCollection", FeaturesOf(df)>>)
                             ELSE Ok(<<"json", "columns", AsWritten(df)>>)),
                    "application/json")
         [] output_format = "XML" ->
               with(Attr(df, Ok(<<"xml", unparse_root_record(to_dict_records(df))>>)),
                    "application/xml")
         [] output_format = "YAML" ->
               with(Attr(df, Ok(<<"yaml", List(to_dict_records(AsWritten(df)))>>)),
                    "application/x-yaml")
         [] output_format = "KML/KMZ" ->
               with(to_file(df, "kml"), "application/vnd.google-earth.kml+xml")
         [] output_format = "Shapefile" ->
               LET tmp_dir == mkdtemp(dirs)
                   r == shapefile_download_body(df, disk)
               IN [exc |-> r.exc, val |-> r.val,
                   dirs |-> TemporaryDirectory_exit(dirs \cup {tmp_dir}, tmp_dir, r)]
         [] output_format = "GPKG" ->
               with(to_file(df, "gpkg"), "application/geopackage+sqlite3")
         [] OTHER -> keep(Raise("cannot unpack non-iterable NoneType object"))

(* ------------------------------- uploads ------------------------------- *)

\* Payload sizes: up to the limit, and one over.
PayloadSizes == 0..(MaxUploadSize + 1)

\* What a file offered under each input format may hold.
ContentsFor(input_format) ==
    CASE Contains(input_format, "CSV") ->
            {<<"csv", t>> : t \in {CoordTable(n) : n \in Sizes}
                               \cup {PlainTable(n) : n \in Sizes}
                               \cup {WktTable(n) : n \in Sizes}}
      [] input_format \in {"JSON", "GeoJSON"} ->
            {<<"json", "FeatureCollection", Features(n)>> : n \in Sizes}
               \cup {<<"json", "records", PlainTable(n)>> : n \in Sizes}
      [] input_format = "Excel" -> {<<"xlsx", PlainTable(n)>> : n \in Sizes}
      [] input_format = "XML" ->
            {<<"xml", unparse_root_record(to_dict_records(PlainTable(n)))>> : n \in Sizes}
      [] input_format = "YAML" ->
            {<<"yaml", List(to_dict_records(PlainTable(n)))>> : n \in Sizes}
      [] input_format = "KML/KMZ" ->
            {<<"kml", GeoTable(n)>> : n \in Sizes} \cup {<<"zip", a>> : a \in Archives}
      [] input_format = "Shapefile" -> {<<"shp", GeoTable(n)>> : n \in Sizes}
      [] input_format = "GPKG" -> {<<"gpkg", GeoTable(n)>> : n \in Sizes}
      [] OTHER -> {}

\* The names the uploader lets through for each input format (its suffix
\* filter does not look at the case of the suffix).
NamesFor(input_format) ==
    CASE input_format = "KML/KMZ" -> {"doc.kml", "doc.kmz", "DOC.KMZ"}
      [] input_format = "Shapefile" -> {"data.shp", "DATA.SHP"}
      [] OTHER -> {"upload"}

\* The supporting files of a shapefile upload.
SupportingFiles ==
    LET shx == UploadedFile("data.shx", <<"shx">>, 1)
        dbf == UploadedFile("data.dbf", <<"dbf">>, 1)
    IN {<<>>, <<shx>>, <<dbf>>, <<shx, dbf>>}

(* -------------------------------- main --------------------------------- *)

NoRequest ==
    [input_format |-> "", output_format |-> "",
     uploaded_file |-> UploadedFile("", Garbage, 0), additional_files |-> <<>>,
     disk |-> "ok"]

NoDownload == [data |-> NoneBytes, file_name |-> "", mime |-> ""]

\* Python truthiness of an Optional[str]: `if error:`
Truthy(e) == e /= NoneStr /\ e[1] /= ""

Init ==
    /\ pc = "idle"
    /\ request = NoRequest
    /\ data = NoneData
    /\ error = NoneStr
    /\ converted_data = NoneData
    /\ download = NoDownload
    /\ ran = <<>>
    /\ tmpDirs = {}

\* main, lines 264-314: the category fixes the input and the output formats
\* offered; a file (and, for a shapefile, its supporting files) is uploaded.
Upload ==
    /\ pc = "idle"
    /\ \E formats \in {GEOSPATIAL_FORMATS, GENERAL_FORMATS} :
       \E input_format \in Range(formats), output_format \in Range(formats) :
       \E name \in NamesFor(input_format),
          content \in ContentsFor(input_format) \cup {Garbage},
          size \in PayloadSizes, disk \in {"ok", "full"} :
       \E additional_files \in
            (IF input_format = "Shapefile" THEN SupportingFiles ELSE {<<>>}) :
          request' = [input_format |-> input_format, output_format |-> output_format,
                      uploaded_file |-> UploadedFile(name, content, size),
                      additional_files |-> additional_files, disk |-> disk]
    /\ pc' = "uploaded"
    /\ UNCHANGED <<data, error, converted_data, download, ran, tmpDirs>>

\* The load without the test of its error: the run goes on to the preview
\* and the Convert button whatever load_file returned.
Load_ignores_error ==
    /\ pc = "uploaded"
    /\ LET r == load_file(request.uploaded_file, request.input_format,
                          request.additional_files, request.disk, tmpDirs)
       IN /\ data' = r.data
          /\ error' = r.error
          /\ tmpDirs' = r.dirs
          /\ pc' = "loaded"
    /\ ran' = Append(ran, "load_file")
    /\ UNCHANGED <<request, converted_data, download>>

\* main, lines 316-328: load_file and the test of its error.
Load ==
    /\ pc = "uploaded"
    /\ LET r == load_file(request.uploaded_file, request.input_format,
                          request.additional_files, request.disk, tmpDirs)
       IN /\ data' = r.data
          /\ error' = r.error
          /\ tmpDirs' = r.dirs
          /\ pc' = IF Truthy(r.error) THEN "load_error" ELSE "loaded"
    /\ ran' = Append(ran, "load_file")
    /\ UNCHANGED <<request, converted_data, download>>

\* main, lines 331-340: the Convert button runs convert_file and unpacks its
\* result into two names, which fails when the result is None.
Convert ==
    /\ pc = "loaded"
    /\ LET c == convert_file(data, request.output_format)
       IN /\ data' = c.input
          /\ IF c.ret = "None"
             THEN /\ pc' = "crashed"
                  /\ UNCHANGED <<converted_data, error>>
             ELSE /\ converted_data' = c.data
                  /\ error' = c.error
                  /\ pc' = IF Truthy(c.error) THEN "convert_error" ELSE "converted"
    /\ ran' = Append(ran, "convert_file")
    /\ UNCHANGED <<request, download, tmpDirs>>

\* main, lines 342-353: get_download_data and the download button.
Download ==
    /\ pc = "converted"
    /\ LET d == get_download_data(converted_data, request.output_format,
                                  request.disk, tmpDirs)
       IN /\ tmpDirs' = d.dirs
          /\ IF d.exc /= <<>>
             THEN /\ pc' = "crashed"
                  /\ UNCHANGED download
             ELSE /\ download' =
                        [data |-> d.val.bytes,
                         file_name |-> "converted." \o get_file_extension(request.output_format),
                         mime |-> d.val.mime]
                  /\ pc' = "done"
    /\ ran' = Append(ran, "get_download_data")
    /\ UNCHANGED <<request, data, error, converted_data>>

\* The next request: a script run starts from nothing but the file system.
NewRequest ==
    /\ pc \in {"load_error", "convert_error", "crashed", "done"}
    /\ pc' = "idle"
    /\ request' = NoRequest
    /\ data' = NoneData
    /\ error' = NoneStr
    /\ converted_data' = NoneData
    /\ download' = NoDownload
    /\ ran' = <<>>
    /\ UNCHANGED tmpDirs

Next == Upload \/ Load \/ Convert \/ Download \/ NewRequest

Spec == Init /\ [][Next]_vars

(* ------------------------------- claims -------------------------------- *)

\* The request's load, recomputed from the upload.
Loaded == load_file(request.uploaded_file, request.input_format,
                    request.additional_files, request.disk, tmpDirs)

LoadFailed == Truthy(Loaded.error)

\* The conversion of the loaded data fails: an error, or no pair at all.
ConvertFailed ==
    LET c == convert_file(Loaded.data, request.output_format)
    IN c.ret = "None" \/ Truthy(c.error)

Ran(stage) == stage \in Range(ran)

GeoTargets == {"GeoJSON", "KML/KMZ", "Shapefile", "GPKG"}
PlainTargets == Range(GENERAL_FORMATS) \cup {"CSV (with coordinates)"}

\* C1: the pipeline stops at the first stage that fails. When load_file
\* reports an error neither convert_file nor get_download_data has run; when
\* convert_file fails get_download_data has not run; and a download exists
\* only when all three stages ran in order and the first two succeeded.
C1_StopsAtFirstFailure ==
    /\ LoadFailed => ~Ran("convert_file") /\ ~Ran("get_download_data")
    /\ (~LoadFailed /\ ConvertFailed) => ~Ran("get_download_data")
    /\ download /= NoDownload =>
          /\ ~LoadFailed /\ ~ConvertFailed
          /\ ran = <<"load_file", "convert_file", "get_download_data">>

\* C1 witness: a conversion failed after a good load and nothing was served.
C1_Witness ==
    /\ pc = "convert_error"
    /\ ran = <<"load_file", "convert_file">>
    /\ download = NoDownload

\* C2 (as claimed, on the tables of at least one record): a plain table whose
\* latitude and longitude are numeric in every record converts to every
\* geospatial target, giving one Point per record built from the two fields,
\* the other attributes kept.
C2_PlainToGeospatial ==
    \A n \in Sizes \ {0} :
        (Ran("convert_file") /\ data = CoordTable(n)
           /\ request.output_format \in GeoTargets)
        => /\ pc \in {"converted", "done"}
           /\ converted_data.kind = "GeoDataFrame"
           /\ Len(converted_data.rows) = n
           /\ \A i \in 1..n :
                 /\ converted_data.rows[i]["geometry"] =
                       Point(data.rows[i]["longitude"][2], data.rows[i]["latitude"][2])
                 /\ converted_data.rows[i]["name"] = data.rows[i]["name"]

\* C3 (as claimed): a geospatial record set converts to every plain target
\* with a record set and no error, while a plain record set with no
\* coordinate and no geometry column is rejected for every geospatial target
\* with an error and no record set.
C3_AsymmetricCompatibility ==
    /\ (Ran("convert_file") /\ data.kind = "GeoDataFrame"
          /\ request.output_format \in PlainTargets)
       => /\ pc \in {"converted", "done"}
          /\ converted_data /= NoneData
          /\ error = NoneStr
    /\ (Ran("convert_file") /\ data.kind = "DataFrame"
          /\ Range(data.columns) \cap {"geometry", "latitude", "longitude"} = {}
          /\ request.output_format \in GeoTargets)
       => /\ pc = "convert_error"
          /\ converted_data = NoneData
          /\ Truthy(error)

\* The members of the uploaded container, when it is one.
Members == request.uploaded_file.content[2]

IsKmzUpload ==
    /\ request.input_format = "KML/KMZ"
    /\ EndsWith(request.uploaded_file.name, ".kmz")

\* C4 (as claimed): unpacking a KMZ container returns the bytes of the first
\* member, in entry order, whose name ends in .kml; with no such member the
\* load fails with the member-not-found error and no record set.
C4_FirstKmlMember ==
    (Ran("load_file") /\ IsKmzUpload /\ request.uploaded_file.content[1] = "zip")
    => LET hits == {i \in DOMAIN Members : EndsWith(Members[i][1], ".kml")}
       IN IF hits = {}
          THEN /\ pc = "load_error"
               /\ data = NoneData
               /\ error = <<"No KML file found in KMZ archive">>
          ELSE LET first == CHOOSE i \in hits : \A j \in hits : i <= j
               IN /\ extract_kmz(request.uploaded_file).val = Members[first][2]
                  /\ data = Members[first][2][2]

\* C5: no temporary directory outlives the call that made it: after
\* handle_shapefile_upload or the Shapefile branch of get_download_data has
\* returned or raised, the workspace is gone.
C5_WorkspaceRemoved == tmpDirs = {}

\* C5 witness: a shapefile upload whose writes failed in the workspace, and a
\* shapefile download that was served.
C5_Witness ==
    /\ tmpDirs = {}
    /\ \/ /\ pc = "load_error"
          /\ request.input_format = "Shapefile"
          /\ request.additional_files /= <<>>
          /\ request.disk = "full"
          /\ error = <<"Error loading file: No space left on device">>
       \/ /\ pc = "done"
          /\ request.output_format = "Shapefile"
          /\ download.mime = "application/zip"

\* Python: s.startswith(prefix)
StartsWith(str, prefix) == Len(str) >= Len(prefix) /\ SubSeq(str, 1, Len(prefix)) = prefix

\* C6 (as claimed): bytes that are no container fail the KMZ load with an
\* error of their own, not the member-not-found error and not the generic
\* load error every other exception is reported with.
C6_ArchiveCorruptDistinct ==
    (Ran("load_file") /\ IsKmzUpload /\ request.uploaded_file.content[1] /= "zip")
    => /\ pc = "load_error"
       /\ error /= <<"No KML file found in KMZ archive">>
       /\ ~StartsWith(error[1], "Error loading file: ")

\* C7 (as claimed, on the tables of at least one record): a table of n
\* records serialized to XML and loaded back with the XML loader is the same
\* n records, fields and values, the values as text.
C7_XmlRoundTrip ==
    \A n \in Sizes \ {0} :
        LET t == PlainTable(n)
            xml == get_download_data(t, "XML", "ok", {}).val.bytes
        IN (pc = "loaded" /\ request.input_format = "XML"
              /\ request.uploaded_file.content = xml)
           => /\ Len(data.rows) = n
              /\ Range(data.columns) = Range(t.columns)
              /\ \A i \in 1..n : \A c \in Range(t.columns) :
                    data.rows[i][c] = Str(t.rows[i][c])

\* C8 (as claimed): a payload over the size limit fails the load; one of
\* exactly the limit is accepted when its bytes are well-formed.
C8_SizeLimit ==
    Ran("load_file") =>
        /\ request.uploaded_file.size > MaxUploadSize => pc = "load_error"
        /\ (request.uploaded_file.size = MaxUploadSize
              /\ request.uploaded_file.content \in ContentsFor("CSV (general)")
              /\ Contains(request.input_format, "CSV")) => pc /= "load_error"

\* C9: converting a geospatial record set to CSV changes the geometry field
\* to the text of each geometry and nothing else: same columns, same number
\* and order of records, every other field as it was; and the input record
\* set is untouched, its geometries still geometries.
C9_GeoToCsvFrame ==
    (Ran("convert_file") /\ Loaded.data.kind = "GeoDataFrame"
       /\ Contains(request.output_format, "CSV"))
    => /\ converted_data.columns = Loaded.data.columns
       /\ DOMAIN converted_data.rows = DOMAIN Loaded.data.rows
       /\ \A i \in DOMAIN converted_data.rows :
             /\ \A c \in Range(converted_data.columns) \ {"geometry"} :
                   converted_data.rows[i][c] = Loaded.data.rows[i][c]
             /\ converted_data.rows[i]["geometry"] = Str(Loaded.data.rows[i]["geometry"])
             /\ converted_data.rows[i]["geometry"][1] = "wkt"
       /\ data = Loaded.data
       /\ \A i \in DOMAIN data.rows : data.rows[i]["geometry"][1] = "geom"

\* C9 witness: a geospatial set of at least two records was converted to CSV.
C9_Witness ==
    /\ pc = "converted"
    /\ data.kind = "GeoDataFrame"
    /\ Contains(request.output_format, "CSV")
    /\ Len(data.rows) >= 2
    /\ converted_data.rows[2]["geometry"] = <<"wkt", "Point", 2, 12>>

\* C10 (as claimed): convert_file returns a (data, error) pair with exactly
\* one of the two set for every loaded record set and every output format
\* main offers with it, so unpacking its result never fails.
C10_ConvertTotal ==
    /\ pc = "loaded" =>
          LET c == convert_file(data, request.output_format)
          IN /\ c.ret = "tuple"
             /\ (c.data = NoneData) /= (c.error = NoneStr)
    /\ ran = <<"load_file", "convert_file">> => pc /= "crashed"

====
